---- MODULE Spec2Model ----
(***************************************************************************)
(* A model of the decision / execution / dedup loop of the web agent:      *)
(*   state_detector.py  StateDetector      (perceptual state tracker)      *)
(*   executor.py        WebExecutor        (action executor, index table)  *)
(*   planner.py         LLMPlanner         (action translator)             *)
(*   storage.py         DatasetStorage     (persistence sink)              *)
(*   agent_b.py         WebAgent           (task loop)                     *)
(*   agent_a_to_b.py    main               (interactive shell)             *)
(* The page, the oracle and the disk are the environment: every outcome    *)
(* they can produce is a nondeterministic input of the action that calls   *)
(* them.                                                                   *)
(***************************************************************************)
EXTENDS Integers, Sequences, FiniteSets, TLC

VARIABLES
    pc,                   \* where main / execute_task stands: "prompt", "loop", "finish", "exit"
    session,              \* number of execute_task calls started
    instruction,          \* execute_task: the instruction of the current call
    task_info,            \* execute_task: the parsed instruction
    step,                 \* execute_task: the step counter
    use_vision_for_step,  \* execute_task: the retry-with-vision flag
    action_history,       \* execute_task: the actions recorded
    storage,              \* execute_task: the DatasetStorage of the call, or None
    outcome,              \* how the last execute_task ended: returned value or exception
    seen_states,          \* StateDetector.seen_states: the retained fingerprints
    last_elements,        \* WebExecutor.last_elements: the cached index table
    disk,                 \* the task directory of the current storage: files and metadata.json
    novel,                \* post-action captures of the session that is_new_state called new
    asked,                \* decide_next_action calls of the session
    browser,              \* the browser session of the executor: "connected" or "closed"
    iter,                 \* what the last loop iteration did (translator call, executor result)
    calls,                \* the last two is_new_state calls since the last reset
    probe                 \* the last direct call of a planner or executor function

vars == <<pc, session, instruction, task_info, step, use_vision_for_step,
          action_history, storage, outcome, seen_states, last_elements, disk,
          novel, asked, browser, iter, calls, probe>>

sessionVars == <<pc, session, instruction, task_info, step, use_vision_for_step,
                 action_history, storage, outcome, disk, novel, asked, browser, iter>>


(***************************************************************************)
(* Python values                                                           *)
(***************************************************************************)

\* None, as a value that can be compared with a dict.
None == [NoneType |-> TRUE]

\* dict.get(key, default)
Get(d, key, default) == IF key \in DOMAIN d THEN d[key] ELSE default

\* A str is a sequence of characters; the empty str and a missing selector
\* (None) are both falsy and are both <<>>.
NoSelector == <<>>

DigitChars == <<"0", "1", "2", "3", "4", "5", "6", "7", "8", "9">>

IsDigits(s) ==
    /\ Len(s) > 0
    /\ \A i \in 1..Len(s) : \E d \in 1..Len(DigitChars) : DigitChars[d] = s[i]

DigitVal(c) == (CHOOSE d \in 1..Len(DigitChars) : DigitChars[d] = c) - 1

RECURSIVE NatToStr(_)
NatToStr(n) ==
    IF n < Len(DigitChars)
    THEN <<DigitChars[n + 1]>>
    ELSE Append(NatToStr(n \div Len(DigitChars)), DigitChars[(n % Len(DigitChars)) + 1])

\* str(n) of an int, as the f-string f'[{int(index)}]' formats it.
IntToStr(n) == IF n < 0 THEN <<"-">> \o NatToStr(-n) ELSE NatToStr(n)

RECURSIVE StrToNat(_)
StrToNat(s) ==
    IF Len(s) = 0
    THEN 0
    ELSE Len(DigitChars) * StrToNat(SubSeq(s, 1, Len(s) - 1)) + DigitVal(s[Len(s)])

\* int(s) of a str: ok is FALSE where Python raises ValueError.
ParseInt(s) ==
    IF IsDigits(s)
    THEN [ok |-> TRUE, value |-> StrToNat(s)]
    ELSE IF Len(s) > 1 /\ s[1] \in {"-", "+"} /\ IsDigits(Tail(s))
    THEN [ok |-> TRUE,
          value |-> IF s[1] = "-" THEN 0 - StrToNat(Tail(s)) ELSE StrToNat(Tail(s))]
    ELSE [ok |-> FALSE, value |-> 0]

\* seq[j] of a Python list (0-based, negative j counts from the end): ok is
\* FALSE where Python raises IndexError.
PyIndex(seq, j) ==
    IF 0 <= j /\ j < Len(seq)
    THEN [ok |-> TRUE, value |-> seq[j + 1]]
    ELSE IF j < 0 /\ 0 <= Len(seq) + j
    THEN [ok |-> TRUE, value |-> seq[Len(seq) + j + 1]]
    ELSE [ok |-> FALSE, value |-> None]

(***************************************************************************)
(* executor.py                                                             *)
(***************************************************************************)

\* The largest number of interactive elements a page of the model shows.
MaxElems == 2

\* extract_dom_context(max_elements=50), as the task loop calls it.
max_elements == 50

\* The locator the page script derives for an element: "#1", "#2", ...
Locator(n) == <<"#">> \o IntToStr(n)

Locators == {Locator(n) : n \in 1..MaxElems}

\* The element lists the page script can return: dense 1-based indices, any
\* locators (two elements may share one).
RECURSIVE LocatorLists(_)
LocatorLists(n) ==
    IF n = 0
    THEN {<<>>}
    ELSE LocatorLists(n - 1)
         \cup {Append(l, x) : l \in {m \in LocatorLists(n - 1) : Len(m) = n - 1},
                              x \in Locators}

MkElements(locs) == [i \in 1..Len(locs) |-> [index |-> i, selector |-> locs[i]]]

\* The length of the one long page of the model, whose indices have two digits.
LongPage == 11

PageElements ==
    {MkElements(l) : l \in LocatorLists(MaxElems)}
    \cup {MkElements([i \in 1..LongPage |-> Locator(i)])}

\* elements[:max_elements]
Truncate(elements, n) == SubSeq(elements, 1, IF Len(elements) < n THEN Len(elements) ELSE n)

\* The outcomes of page.evaluate in an extraction: one of the element lists,
\* or an exception.
Evaluations(pages) == {[ok |-> TRUE, elements |-> e] : e \in pages} \cup {[ok |-> FALSE]}

\* extract_dom_context: the table cached in last_elements.  When
\* page.evaluate raises, the except branch returns an error text and the
\* cache keeps the table of an earlier extraction.
extract_dom_context(cache, page) ==
    IF page.ok THEN Truncate(page.elements, max_elements) ELSE cache

\* The selector '[N]' of an action.
IndexSelector(n) == <<"[">> \o IntToStr(n) \o <<"]">>

\* selector.startswith('[') and selector.endswith(']')
IsBracketed(selector) ==
    /\ Len(selector) > 0
    /\ selector[1] = "["
    /\ selector[Len(selector)] = "]"

\* A resolution that takes the N-th entry with a 0-based N.
ResolveSelector_ZeroBased(selector, table) ==
    IF ~IsBracketed(selector)
    THEN selector
    ELSE LET n == ParseInt(SubSeq(selector, 2, Len(selector) - 1)) IN
         IF n.ok /\ n.value <= Len(table) /\ PyIndex(table, n.value).ok
         THEN PyIndex(table, n.value).value.selector
         ELSE selector

\* _click 94-104 and _type 122-129: the selector the page calls are given.
ResolveSelector(selector, table) ==
    IF ~IsBracketed(selector)
    THEN selector
    ELSE LET n == ParseInt(SubSeq(selector, 2, Len(selector) - 1)) IN
         IF n.ok /\ n.value <= Len(table) /\ PyIndex(table, n.value - 1).ok
         THEN PyIndex(table, n.value - 1).value.selector
         ELSE selector

\* A page call recorded in the order it was issued.
PageOp(op, selector, ok) == [op |-> op, selector |-> selector, ok |-> ok]

\* Whether a page call on the selector can succeed at all: '[N]' left
\* unresolved is no selector of the page, and a missing selector is none.
Addressable(selector) ==
    /\ selector # NoSelector
    /\ ~(IsBracketed(selector) /\ ParseInt(SubSeq(selector, 2, Len(selector) - 1)).ok)

\* A click handler that forces the click whether or not the normal one worked.
_click_AlwaysForce(action, table, env) ==
    LET selector == ResolveSelector(Get(action, "selector", NoSelector), table)
        visible == Addressable(selector) /\ env.visible
        w == <<PageOp("wait_for_selector", selector, visible)>>
    IN  IF ~visible
        THEN [raised |-> TRUE, ops |-> w, action |-> action]
        ELSE [raised |-> ~env.force,
              ops |-> w \o <<PageOp("click", selector, env.click),
                             PageOp("force_click", selector, env.force)>>,
              action |-> action]

\* _click: the page calls issued and whether the handler raised.  env is
\* what the page answers: visible, click, force.
_click(action, table, env) ==
    LET selector == ResolveSelector(Get(action, "selector", NoSelector), table)
        visible == Addressable(selector) /\ env.visible
        w == <<PageOp("wait_for_selector", selector, visible)>>
    IN  IF ~visible
        THEN [raised |-> TRUE, ops |-> w, action |-> action]
        ELSE IF env.click
        THEN [raised |-> FALSE, ops |-> w \o <<PageOp("click", selector, TRUE)>>,
              action |-> action]
        ELSE [raised |-> ~env.force,
              ops |-> w \o <<PageOp("click", selector, FALSE),
                             PageOp("force_click", selector, env.force)>>,
              action |-> action]

\* The word the page script of _type looks for.
SearchWord == <<"s", "e", "a", "r", "c", "h">>

\* String.toLowerCase, on the letters the attribute values of the model use.
ToLowerCase(s) ==
    [i \in 1..Len(s) |->
        CASE s[i] = "S" -> "s"
          [] s[i] = "E" -> "e"
          [] s[i] = "Q" -> "q"
          [] OTHER -> s[i]]

\* String.includes
Includes(s, sub) ==
    \E i \in 0..(Len(s) - Len(sub)) : SubSeq(s, i + 1, i + Len(sub)) = sub

\* elem.getAttribute(name) || ''
Attribute(field, name) == IF name \in DOMAIN field THEN field[name] ELSE <<>>

\* A detection that looks at the type attribute alone.
IsSearchBox_TypeOnly(field) == ToLowerCase(Attribute(field, "type")) = SearchWord

\* _type 135-153: the page script that detects a search field.
IsSearchBox(field) ==
    \/ ToLowerCase(Attribute(field, "type")) = SearchWord
    \/ ToLowerCase(Attribute(field, "role")) = SearchWord \o <<"b", "o", "x">>
    \/ Includes(ToLowerCase(Attribute(field, "placeholder")), SearchWord)
    \/ Includes(ToLowerCase(Attribute(field, "name")), SearchWord)
    \/ Includes(ToLowerCase(Attribute(field, "id")), SearchWord)

\* An input without any mark of a search field, and a <input type="search">.
PlainField == [type |-> <<"t", "e", "x", "t">>, placeholder |-> <<"E", "m", "a", "i", "l">>]
SearchInput == [type |-> SearchWord]

\* _type: env is what the page answers: visible, evaluate, field (the
\* attributes of the element the selector names), fill, press.
_type(action, table, env) ==
    LET selector == ResolveSelector(Get(action, "selector", NoSelector), table)
        visible == Addressable(selector) /\ env.visible
        w == <<PageOp("wait_for_selector", selector, visible)>>
        e == w \o <<PageOp("evaluate", selector, env.evaluate)>>
        marked == [k \in DOMAIN action \cup {"_is_search_box"} |->
                      IF k = "_is_search_box" THEN IsSearchBox(env.field) ELSE action[k]]
        f == e \o <<PageOp("fill", selector, env.fill)>>
    IN  IF ~visible
        THEN [raised |-> TRUE, ops |-> w, action |-> action]
        ELSE IF ~env.evaluate
        THEN [raised |-> TRUE, ops |-> e, action |-> action]
        ELSE IF ~env.fill
        THEN [raised |-> TRUE, ops |-> f, action |-> marked]
        ELSE IF IsSearchBox(env.field) \/ Get(action, "press_enter", FALSE)
        THEN [raised |-> ~env.press,
              ops |-> f \o <<PageOp("press_enter", selector, env.press)>>,
              action |-> marked]
        ELSE [raised |-> FALSE, ops |-> f, action |-> marked]

\* _navigate, _wait, _scroll: one page call (none for a wait or a scroll
\* without selector, which sleeps or turns the wheel).  env: ok.
_navigate(action, env) ==
    [raised |-> ~env.ok, ops |-> <<PageOp("goto", NoSelector, env.ok)>>, action |-> action]

_wait(action, env) ==
    IF Get(action, "selector", NoSelector) # NoSelector
    THEN [raised |-> ~env.ok,
          ops |-> <<PageOp("wait_for_selector", action.selector, env.ok)>>,
          action |-> action]
    ELSE [raised |-> FALSE, ops |-> <<>>, action |-> action]

_scroll(action, env) ==
    IF Get(action, "selector", NoSelector) # NoSelector
    THEN [raised |-> ~env.ok,
          ops |-> <<PageOp("scroll_into_view", action.selector, env.ok)>>,
          action |-> action]
    ELSE [raised |-> ~env.ok, ops |-> <<PageOp("wheel", NoSelector, env.ok)>>,
          action |-> action]

\* The handler execute_action routes to, or None for an unknown action type.
Handler(action, table, env) ==
    LET action_type == Get(action, "action", "") IN
    CASE action_type = "click" -> _click(action, table, env)
      [] action_type = "type" -> _type(action, table, env)
      [] action_type = "navigate" -> _navigate(action, env)
      [] action_type = "wait" -> _wait(action, env)
      [] action_type = "scroll" -> _scroll(action, env)
      [] OTHER -> None

\* What the except branch of execute_action returns on attempt number
\* `attempt` of `attempts`: range(attempts) ends at attempts - 1, so the
\* test attempt == attempts never holds and the function falls off its end.
OnException(attempt, attempts) ==
    IF attempt = attempts
    THEN [success |-> FALSE, error |-> "exception"]
    ELSE None

\* execute_action(action): the value returned, the page calls issued and the
\* action dict as the handler left it.
execute_action(action, table, env) ==
    LET h == Handler(action, table, env) IN
    IF h = None
    THEN [result |-> [success |-> FALSE, error |-> "Unknown action"],
          ops |-> <<>>, action |-> action]
    ELSE IF h.raised
    THEN [result |-> OnException(0, 1), ops |-> h.ops, action |-> h.action]
    ELSE [result |-> [success |-> TRUE, url |-> "page.url",
                      is_search_box |-> Get(h.action, "_is_search_box", FALSE)],
          ops |-> h.ops, action |-> h.action]

(***************************************************************************)
(* planner.py                                                              *)
(***************************************************************************)

\* JSON values as json.loads returns them, tagged with their Python type.
JNull == [t |-> "NoneType"]
JStr(s) == [t |-> "str", v |-> s]
JChars(cs) == [t |-> "str", chars |-> cs]
JInt(n) == [t |-> "int", n |-> n]
JFloat(whole) == [t |-> "float", whole |-> whole]
JList(items) == [t |-> "list", v |-> items]
JObj(fields) == [t |-> "dict", v |-> fields]
EmptyDict == [k \in {} |-> JNull]

\* The body of an oracle response that json.loads rejects (prose, a
\* truncated object).
NotJson == [t |-> "JSONDecodeError"]

\* An oracle response: its body, bare ("none"), inside a markdown fence
\* ("json", "plain"), or after an opening fence that is never closed ("open").
Response(fence, body) == [fence |-> fence, body |-> body]

Fences == {"none", "json", "plain", "open"}

\* _parse_json 201-208: the text handed to json.loads.  With no closing
\* fence find() answers -1 and the slice [start:-1] drops the last character
\* of the body, which then no longer loads.
StripFence(response) == IF response.fence = "open" THEN NotJson ELSE response.body

\* parsed.get(key, default) of a dict
JGet(obj, key, default) == IF key \in DOMAIN obj.v THEN obj.v[key] ELSE default

\* _parse_json: the fence is stripped, the body loaded, and a body that does
\* not load is replaced by the fallback dict.
_parse_json(response) ==
    IF StripFence(response) = NotJson
    THEN JObj([action |-> JStr("stop"), description |-> JStr("Failed to parse action")])
    ELSE StripFence(response)

Raise(error) == [raised |-> TRUE, error |-> error]
Return(value) == [raised |-> FALSE, value |-> value]

\* key in container: a dict key, a substring of a str, an item of a list;
\* TypeError for a container that is none of these.
PyIn(key, container) ==
    CASE container.t = "dict" -> Return(key \in DOMAIN container.v)
      [] container.t = "str" -> Return("v" \in DOMAIN container /\ container.v = key)
      [] container.t = "list" ->
            Return(\E i \in 1..Len(container.v) : container.v[i] = JStr(key))
      [] OTHER -> Raise("TypeError")

\* int(x)
PyInt(x) ==
    CASE x.t = "int" -> Return(x.n)
      [] x.t = "float" -> Return(x.whole)
      [] x.t = "str" ->
            IF "chars" \in DOMAIN x /\ ParseInt(x.chars).ok
            THEN Return(ParseInt(x.chars).value)
            ELSE Raise("ValueError")
      [] OTHER -> Raise("TypeError")

\* The text of a JSON str, '' for the default.
TextOf(j) == IF j.t = "str" /\ "v" \in DOMAIN j THEN j.v ELSE ""

\* decide_next_action 62: the number of actions of action_history[-5:]
history_window == 5

\* A slice that keeps the oldest actions, action_history[:5].
LastActions_Oldest(history, n) ==
    SubSeq(history, 1, IF Len(history) < n THEN Len(history) ELSE n)

\* action_history[-n:]
LastActions(history, n) ==
    SubSeq(history, IF Len(history) < n THEN 1 ELSE Len(history) - n + 1, Len(history))

\* a.get('next_goal') or a.get('description', 'action taken')
ShownGoal(a) ==
    IF Get(a, "next_goal", "") # "" THEN a.next_goal ELSE Get(a, "description", "action taken")

\* f"  {i+1}. {a['action']}: {...}", one line of the rendered history
HistoryLine(i, a) == [no |-> i, action |-> a.action, goal |-> ShownGoal(a)]

\* The rendering of an empty history.
NoneYet == <<[literal |-> "None yet"]>>

\* decide_next_action 60-63: history_text, as its lines.
history_text(history) ==
    IF Len(history) = 0
    THEN NoneYet
    ELSE LET shown == LastActions(history, history_window) IN
         [i \in 1..Len(shown) |-> HistoryLine(i, shown[i])]

\* decide_next_action 89-102: the list salvaged from a flat response.
Salvage(parsed) ==
    LET raw == JGet(parsed, "action", JList(<<>>)) IN
    IF raw.t = "str" /\ "v" \in DOMAIN raw
    THEN IF raw.v \in {"click", "click_element"} /\ "index" \in DOMAIN parsed.v
         THEN JList(<<JObj([click_element |-> JObj([index |-> parsed.v.index])])>>)
         ELSE IF raw.v \in {"input", "input_text"} /\ "index" \in DOMAIN parsed.v
         THEN JList(<<JObj([input_text |->
                        JObj([index |-> parsed.v.index,
                              text |-> JGet(parsed, "text", JStr(""))])])>>)
         ELSE JList(<<>>)
    ELSE JList(<<>>)

\* decide_next_action 132-142: the action in the executor's format.
BuildAction(action_type, selector, text_value, parsed, step_number) ==
    [action |-> action_type,
     selector |-> selector,
     text |-> text_value,
     thinking |-> TextOf(JGet(parsed, "thinking", JStr(""))),
     memory |-> TextOf(JGet(parsed, "memory", JStr(""))),
     next_goal |-> TextOf(JGet(parsed, "next_goal", JStr(""))),
     capture |-> "both",
     step_number |-> step_number]

\* decide_next_action 108-118: a click_element or input_text object.
IndexedAction(action_type, key, action_obj, parsed, step_number) ==
    IF action_obj.t # "dict"
    THEN Raise("TypeError")
    ELSE LET params == action_obj.v[key] IN
         IF params.t # "dict"
         THEN Raise("AttributeError")
         ELSE LET index == PyInt(JGet(params, "index", JNull)) IN
              IF index.raised
              THEN index
              ELSE Return(BuildAction(action_type, IndexSelector(index.value),
                                      IF key = "input_text"
                                      THEN TextOf(JGet(params, "text", JStr("")))
                                      ELSE "",
                                      parsed, step_number))

\* decide_next_action 80-144, from the oracle's response on: the action
\* returned, or the exception raised.
decide_next_action(response, step_number) ==
    LET parsed == _parse_json(response) IN
    IF parsed.t # "dict"
    THEN Raise("AttributeError")
    ELSE
    LET raw == JGet(parsed, "action", JList(<<>>))
        action_list == IF raw.t = "list" THEN raw ELSE Salvage(parsed)
        wait == Return(BuildAction("wait", NoSelector, "", parsed, step_number))
    IN  IF Len(action_list.v) = 0
        THEN wait
        ELSE LET action_obj == action_list.v[1] IN
             IF PyIn("click_element", action_obj).raised
             THEN PyIn("click_element", action_obj)
             ELSE IF PyIn("click_element", action_obj).value
             THEN IndexedAction("click", "click_element", action_obj, parsed, step_number)
             ELSE IF PyIn("input_text", action_obj).value
             THEN IndexedAction("type", "input_text", action_obj, parsed, step_number)
             ELSE IF PyIn("done", action_obj).value
             THEN Return(BuildAction("stop", NoSelector, "", parsed, step_number))
             ELSE wait

\* parse_instruction 39-48, from the oracle's response on.
parse_instruction(response) == _parse_json(response)

(***************************************************************************)
(* state_detector.py                                                       *)
(***************************************************************************)

\* Width of a fingerprint in the model (imagehash.phash(hash_size=16) has 256).
HashBits == 7

\* StateDetector.__init__(similarity_threshold=5)
similarity_threshold == 5

\* Screenshots: image 2w and image 2w+1 are two renderings of the same page
\* state (a blinking cursor) and have the same fingerprint.
Images == 0 .. (2 * HashBits + 1)

\* imagehash.phash: the fingerprint of an image, a set of set bits.
phash(image) == {b \in 1..HashBits : b <= image \div 2}

\* ImageHash.__sub__: the Hamming distance of two fingerprints.
HashDiff(h1, h2) == Cardinality((h1 \ h2) \cup (h2 \ h1))

\* A comparison that takes a distance of exactly the threshold for novel.
IsDuplicate_Strict(seen, h) == \E s \in seen : HashDiff(h, s) < similarity_threshold

\* The loop over seen_states of is_new_state: some retained fingerprint is
\* within the threshold.
IsDuplicate(seen, h) == \E s \in seen : HashDiff(h, s) <= similarity_threshold

\* is_new_state: the value returned.
is_new_state(seen, image, force_save) ==
    IF force_save THEN TRUE ELSE ~IsDuplicate(seen, phash(image))

\* A tracker that retains nothing.
Retain_Never(seen, image, force_save) == seen

\* A reset that keeps the fingerprints.
clear_Nothing(seen) == seen

\* reset: self.seen_states.clear()
clear(seen) == {}

\* A tracker that retains every fingerprint it is shown without force.
Retain_Every(seen, image, force_save) ==
    IF force_save THEN seen ELSE seen \cup {phash(image)}

\* A tracker that retains the fingerprint of a forced call as well.
Retain_Forced(seen, image, force_save) ==
    IF ~force_save /\ \E s \in seen : HashDiff(phash(image), s) <= similarity_threshold
    THEN seen
    ELSE seen \cup {phash(image)}

\* is_new_state: seen_states after the call.
Retain(seen, image, force_save) ==
    IF force_save \/ IsDuplicate(seen, phash(image))
    THEN seen
    ELSE seen \cup {phash(image)}

(***************************************************************************)
(* storage.py                                                              *)
(***************************************************************************)

\* A naming that leaves the step number out.
ShotName_Unnumbered(n, label) == [step |-> 0, label |-> label]

\* The name of a screenshot file: "00_initial", or f"{step:02d}_after_{action}".
ShotName(n, label) == [step |-> n, label |-> label]

\* DatasetStorage.__init__
DatasetStorage(task_name, app_name, dir) ==
    [task_dir |-> dir,
     screenshot_count |-> 0,
     metadata |-> [task_name |-> task_name, app_name |-> app_name, screenshots |-> <<>>]]

\* An empty task directory.
EmptyDir(dir) == [dir |-> dir, files |-> <<>>, metadata |-> None, metadata_writes |-> 0]

\* A sink that records a screenshot without counting it.
save_screenshot_Uncounted(st, name, url, action) ==
    [st EXCEPT
       !.metadata = [k \in DOMAIN st.metadata |->
                       IF k = "screenshots"
                       THEN Append(st.metadata.screenshots, [name |-> name, url |-> url])
                       ELSE st.metadata[k]]]

\* save_screenshot: the storage object after the call.
save_screenshot(st, name, url, action) ==
    [st EXCEPT
       !.metadata = [k \in DOMAIN st.metadata |->
                       IF k = "screenshots"
                       THEN Append(st.metadata.screenshots,
                                   [name |-> name, url |-> url,
                                    action |-> Get(action, "action", ""),
                                    selector |-> Get(action, "selector", NoSelector)])
                       ELSE st.metadata[k]],
       !.screenshot_count = st.screenshot_count + 1]

\* save_screenshot 47-51: the files of the task directory after
\* open(filepath, 'wb') and write: a file of the same name is overwritten.
WriteShot(d, name) ==
    IF \E i \in 1..Len(d.files) : d.files[i] = name
    THEN d
    ELSE [d EXCEPT !.files = Append(d.files, name)]

\* save_metadata 81-92: the metadata dict after the call.  action_history is
\* a parameter the function never reads.
save_metadata(st, instr, info, history, error) ==
    LET keys == DOMAIN st.metadata
                \cup {"instruction", "task_info", "total_screenshots", "status"}
                \cup (IF error # "" THEN {"error"} ELSE {})
    IN  [k \in keys |->
           CASE k = "instruction" -> instr
             [] k = "task_info" -> info
             [] k = "total_screenshots" -> st.screenshot_count
             [] k = "error" -> error
             [] k = "status" -> IF error # "" THEN "failed" ELSE "completed"
             [] OTHER -> st.metadata[k]]

\* save_metadata 94-98: the task directory after metadata.json is written.
WriteMetadata(d, metadata) ==
    [d EXCEPT !.metadata = metadata, !.metadata_writes = d.metadata_writes + 1]

(***************************************************************************)
(* agent_b.py: WebAgent.execute_task, as agent_a_to_b.main calls it        *)
(***************************************************************************)

\* A step budget of one step more.
max_steps_Longer == 10 + 1

\* execute_task: max_steps
max_steps == 10

\* The number of execute_task calls of a run of the model.
MaxSessions == 2

\* The number of malformed oracle responses the history of a session holds.
MaxMalformed == 1

\* The screenshots a session can take: one page state, and one far from it.
SessionImages == {0, 2 * HashBits + 1}

\* What page.evaluate returns to an extraction of a session.
SessionPages == {MkElements(<<>>), MkElements(<<Locator(1)>>)}

ClickResponse(index) ==
    Response("none", JObj([action |-> JList(<<JObj([click_element |-> JObj([index |-> index])])>>)]))

TypeResponse(index, text) ==
    Response("none", JObj([action |-> JList(<<JObj([input_text |->
                              JObj([index |-> index, text |-> JStr(text)])])>>)]))

DoneResponse ==
    Response("none", JObj([action |-> JList(<<JObj([done |-> JObj([success |-> JStr("true")])])>>)]))

ProseResponse == Response("none", NotJson)

MissingIndexResponse ==
    Response("none", JObj([action |-> JList(<<JObj([click_element |-> JObj(EmptyDict)])>>)]))

\* The oracle's answers to the action-decision call of a session.
SessionResponses ==
    {ClickResponse(JInt(1)), DoneResponse, ProseResponse, MissingIndexResponse}

InstructionResponse ==
    Response("json", JObj([app_name |-> JStr("Example"), url |-> JStr("https://example.com"),
                           task |-> JStr("search for cats")]))

\* The oracle's answers to the instruction-parsing call of a session.
SessionParseResponses ==
    {InstructionResponse, ProseResponse,
     Response("none", JObj([app_name |-> JStr("Example"), task |-> JStr("search for cats")]))}

\* The number of 'wait' actions a history holds.
Malformed(history) == Cardinality({i \in 1..Len(history) : history[i].action = "wait"})

\* What the page can answer to the handler of an action.
Envs(action) ==
    CASE action.action = "click" ->
            [visible : BOOLEAN, click : BOOLEAN, force : BOOLEAN]
      [] action.action = "type" ->
            [visible : BOOLEAN, evaluate : BOOLEAN, field : {PlainField, SearchInput},
             fill : BOOLEAN, press : BOOLEAN]
      [] OTHER -> [ok : BOOLEAN]

NoIter == [step_number |-> 0]

\* The record of a session start that took the initial screenshot: the
\* image, and the fingerprints the reset removed.
Started(image, seen) == [step_number |-> 0, image |-> image, cleared |-> seen]

\* What the record of an iteration keeps of the record before it: the
\* session start, for the first iteration.
Follows(before) == IF before.step_number = 0 THEN before ELSE NoIter

\* A history that keeps the latest action alone.
append_Latest(history, action) == <<action>>

\* A history that records nothing.
append_Nothing(history, action) == history

\* execute_task 115: action_history.append(action)
append(history, action) == Append(history, action)

\* A loop that attaches a screenshot at every step.
screenshot_for_llm_Always(n, flag) == TRUE

\* execute_task 67-70: whether a screenshot is attached at step n.
screenshot_for_llm(n, flag) == (n = 1) \/ flag

\* A loop that never takes a 'stop' action for the end of the task.
IsStop_Never(action) == FALSE

\* execute_task 96: action.get("action") == "stop"
IsStop(action) == Get(action, "action", "") = "stop"

\* An exception leaves execute_task: main's except branch prints it and the
\* shell prompts again.
Raised(error) == [kind |-> "raised", error |-> error]

\* execute_task 18-47: reset, parse, storage, navigate, initial screenshot.
StartTask ==
    /\ pc = "prompt"
    /\ session < MaxSessions
    /\ session' = session + 1
    /\ instruction' = session + 1
    /\ novel' = 0
    /\ asked' = 0
    /\ step' = 0
    /\ action_history' = <<>>
    /\ use_vision_for_step' = FALSE
    /\ UNCHANGED <<last_elements, browser, calls, probe>>
    /\ \E response \in SessionParseResponses :
         LET info == parse_instruction(response) IN
         IF ~({"app_name", "url", "task"} \subseteq DOMAIN info.v)
         THEN /\ task_info' = info
              /\ outcome' = Raised("KeyError")
              /\ pc' = "prompt"
              /\ iter' = NoIter
              /\ seen_states' = clear(seen_states)
              /\ UNCHANGED <<storage, disk>>
         ELSE /\ task_info' = info
              /\ \E navigated \in BOOLEAN :
                   LET st == DatasetStorage(info.v.task.v, info.v.app_name.v, session + 1) IN
                   IF ~navigated
                   THEN /\ outcome' = Raised("TimeoutError")
                        /\ pc' = "prompt"
                        /\ iter' = NoIter
                        /\ seen_states' = clear(seen_states)
                        /\ storage' = st
                        /\ disk' = EmptyDir(st.task_dir)
                   ELSE \E image \in SessionImages, written \in BOOLEAN :
                          /\ seen_states' = Retain(clear(seen_states), image, TRUE)
                          /\ iter' = Started(image, seen_states)
                          /\ IF ~is_new_state(clear(seen_states), image, TRUE)
                             THEN /\ outcome' = [kind |-> "running"]
                                  /\ pc' = "loop"
                                  /\ storage' = st
                                  /\ disk' = EmptyDir(st.task_dir)
                             ELSE IF ~written
                             THEN /\ outcome' = Raised("OSError")
                                  /\ pc' = "prompt"
                                  /\ storage' = st
                                  /\ disk' = EmptyDir(st.task_dir)
                             ELSE /\ outcome' = [kind |-> "running"]
                                  /\ pc' = "loop"
                                  /\ storage' = save_screenshot(st, ShotName(0, "initial"),
                                                   info.v.url.v, [action |-> "navigate"])
                                  /\ disk' = WriteShot(EmptyDir(st.task_dir), ShotName(0, "initial"))

\* The iteration ends in an exception.
IterFault(n, vision, fresh, action, x, error) ==
    /\ pc' = "prompt"
    /\ outcome' = Raised(error)
    /\ step' = n
    /\ use_vision_for_step' = FALSE
    /\ iter' = [step_number |-> n, vision |-> vision, fresh |-> fresh, follows |-> Follows(iter), action |-> action,
                result |-> x.result, ops |-> x.ops, end |-> "raised"]

NotExecuted == [result |-> [skipped |-> TRUE], ops |-> <<>>]

\* execute_task 114-125: record the action, capture, persist if novel.
IterRecord(n, vision, fresh, x) ==
    /\ action_history' = append(action_history, x.action)
    /\ \E image \in SessionImages :
         /\ seen_states' = Retain(seen_states, image, FALSE)
         /\ novel' = IF is_new_state(seen_states, image, FALSE) THEN novel + 1 ELSE novel
         /\ IF ~is_new_state(seen_states, image, FALSE)
            THEN /\ UNCHANGED <<storage, disk, outcome>>
                 /\ pc' = IF n < max_steps THEN "loop" ELSE "finish"
                 /\ step' = n
                 /\ use_vision_for_step' = FALSE
                 /\ iter' = [step_number |-> n, vision |-> vision, fresh |-> fresh, follows |-> Follows(iter), action |-> x.action,
                             result |-> x.result, ops |-> x.ops, image |-> image,
                                    end |-> "duplicate"]
            ELSE \E written \in BOOLEAN :
                   IF ~written
                   THEN /\ IterFault(n, vision, fresh, x.action, x, "OSError")
                        /\ UNCHANGED <<storage, disk>>
                   ELSE /\ storage' = save_screenshot(storage, ShotName(n, x.action.action),
                                                      "page.url", x.action)
                        /\ disk' = WriteShot(disk, ShotName(n, x.action.action))
                        /\ UNCHANGED outcome
                        /\ pc' = IF n < max_steps THEN "loop" ELSE "finish"
                        /\ step' = n
                        /\ use_vision_for_step' = FALSE
                        /\ iter' = [step_number |-> n, vision |-> vision, fresh |-> fresh, follows |-> Follows(iter), action |-> x.action,
                                    result |-> x.result, ops |-> x.ops, image |-> image,
                                    end |-> "saved"]

\* execute_task 104-112: execute, and retry with vision after a blind failure.
IterExecute(n, vision, fresh, action, table) ==
    \E env \in Envs(action) :
      LET x == execute_action(action, table, env) IN
      IF "success" \notin DOMAIN x.result
      THEN /\ IterFault(n, vision, fresh, x.action, x, "AttributeError")
           /\ UNCHANGED <<action_history, seen_states, storage, disk, novel>>
      ELSE IF ~x.result.success /\ ~vision
      THEN /\ use_vision_for_step' = TRUE
           /\ step' = n - 1
           /\ pc' = "loop"
           /\ iter' = [step_number |-> n, vision |-> vision, fresh |-> fresh, follows |-> Follows(iter), action |-> x.action,
                       result |-> x.result, ops |-> x.ops, end |-> "retry"]
           /\ UNCHANGED <<action_history, seen_states, storage, disk, novel, outcome>>
      ELSE IterRecord(n, vision, fresh, x)

\* execute_task 49-125: one iteration of the step loop.
Iterate ==
    /\ pc = "loop"
    /\ step < max_steps
    /\ asked' = asked + 1
    /\ UNCHANGED <<session, instruction, task_info, browser, calls, probe>>
    /\ \E page \in Evaluations(SessionPages), response \in SessionResponses :
         LET n == step + 1
             table == extract_dom_context(last_elements, page)
             vision == screenshot_for_llm(n, use_vision_for_step)
             fresh == page.ok
             d == decide_next_action(response, n)
         IN  /\ last_elements' = table
             /\ IF d.raised
                THEN /\ IterFault(n, vision, fresh, [action |-> "none"], NotExecuted, d.error)
                     /\ UNCHANGED <<action_history, seen_states, storage, disk, novel>>
                ELSE IF IsStop(d.value)
                THEN /\ pc' = "finish"
                     /\ step' = n
                     /\ use_vision_for_step' = FALSE
                     /\ iter' = [step_number |-> n, vision |-> vision, fresh |-> fresh, follows |-> Follows(iter), action |-> d.value,
                                 result |-> NotExecuted.result, ops |-> <<>>, end |-> "stop"]
                     /\ UNCHANGED <<action_history, seen_states, storage, disk, novel, outcome>>
                ELSE /\ (d.value.action = "wait" => Malformed(action_history) < MaxMalformed)
                     /\ IterExecute(n, vision, fresh, d.value, table)

\* execute_task 127-134: save the metadata and return.
Finish ==
    /\ pc = "finish"
    /\ UNCHANGED <<session, instruction, task_info, step, use_vision_for_step,
                   action_history, seen_states, last_elements, novel, asked, browser,
                   iter, calls, probe>>
    /\ \E written \in BOOLEAN :
         IF ~written
         THEN /\ outcome' = Raised("OSError")
              /\ pc' = "prompt"
              /\ UNCHANGED <<storage, disk>>
         ELSE LET metadata == save_metadata(storage, instruction, task_info, action_history, "") IN
              /\ storage' = [storage EXCEPT !.metadata = metadata]
              /\ disk' = WriteMetadata(disk, metadata)
              /\ outcome' = [kind |-> "returned", success |-> TRUE,
                             output_dir |-> storage.task_dir,
                             screenshots |-> storage.screenshot_count]
              /\ pc' = "prompt"

\* A shell that closes the executor when its loop ends, as the finally
\* clause of agent_b.main does.
AfterLoop_Close(b) == "closed"

\* main after the loop: nothing follows the break, executor.close() is not
\* called and the browser session stays as it is.
AfterLoop(b) == b

\* main 85-87: 'quit', 'exit' or 'q' at the prompt ends the loop.
Quit ==
    /\ pc = "prompt"
    /\ pc' = "exit"
    /\ browser' = AfterLoop(browser)
    /\ UNCHANGED <<session, instruction, task_info, step, use_vision_for_step,
                   action_history, storage, outcome, seen_states, last_elements,
                   disk, novel, asked, iter, calls, probe>>

\* main 106-108: KeyboardInterrupt, at the prompt or while execute_task runs
\* (between two steps of the session), ends the loop.
Interrupt ==
    /\ pc \in {"prompt", "loop", "finish"}
    /\ pc' = "exit"
    /\ outcome' = IF pc = "prompt" THEN outcome ELSE [kind |-> "interrupted"]
    /\ browser' = AfterLoop(browser)
    /\ UNCHANGED <<session, instruction, task_info, step, use_vision_for_step,
                   action_history, storage, seen_states, last_elements,
                   disk, novel, asked, iter, calls, probe>>

Init ==
    /\ pc = "prompt"
    /\ session = 0
    /\ instruction = 0
    /\ task_info = None
    /\ step = 0
    /\ use_vision_for_step = FALSE
    /\ action_history = <<>>
    /\ storage = None
    /\ outcome = [kind |-> "none"]
    /\ seen_states = {}
    /\ last_elements = <<>>
    /\ disk = EmptyDir(0)
    /\ novel = 0
    /\ asked = 0
    /\ browser = "connected"
    /\ iter = NoIter
    /\ calls = <<>>
    /\ probe = None

Next ==
    \/ StartTask
    \/ Iterate
    \/ Finish
    \/ Quit
    \/ Interrupt

Spec == Init /\ [][Next]_vars

(***************************************************************************)
(* The tracker on its own: any sequence of is_new_state and reset calls    *)
(***************************************************************************)

\* The call log keeps the last two calls.
LogCall(log, c) == IF Len(log) < 2 THEN Append(log, c) ELSE <<log[2], c>>

\* StateDetector.is_new_state(image, force_save)
IsNewState(image, force_save) ==
    /\ seen_states' = Retain(seen_states, image, force_save)
    /\ calls' = LogCall(calls, [image |-> image, force |-> force_save,
                                empty |-> seen_states = {},
                                seen |-> seen_states,
                                ret |-> is_new_state(seen_states, image, force_save)])
    /\ UNCHANGED <<sessionVars, last_elements, probe>>

\* StateDetector.reset()
reset ==
    /\ seen_states' = clear(seen_states)
    /\ calls' = <<>>
    /\ UNCHANGED <<sessionVars, last_elements, probe>>

NextDetector ==
    \/ \E image \in Images, force_save \in BOOLEAN : IsNewState(image, force_save)
    \/ reset

SpecDetector == Init /\ [][NextDetector]_vars

(***************************************************************************)
(* The translator on its own: any oracle response                          *)
(***************************************************************************)

\* The values an oracle puts in an index field.
IndexValues ==
    {JInt(n) : n \in 0..(MaxElems + 1)}
    \cup {JNull, JFloat(1), JChars(<<"2">>), JChars(<<"t", "w", "o">>), JStr("first")}

\* The bodies of the oracle's answers to the action-decision call.
DecideBodies ==
    {ClickResponse(i).body : i \in IndexValues}
    \cup {TypeResponse(i, "cats").body : i \in IndexValues}
    \cup {DoneResponse.body, MissingIndexResponse.body, NotJson,
          JObj(EmptyDict),
          JObj([action |-> JList(<<>>)]),
          JObj([action |-> JNull]),
          JObj([action |-> JList(<<JObj([scroll |-> JObj(EmptyDict)])>>)]),
          JObj([action |-> JList(<<JObj([input_text |-> JObj([text |-> JStr("cats")])])>>)]),
          JObj([action |-> JList(<<JObj([click_element |-> JInt(1)])>>)]),
          JObj([action |-> JList(<<JStr("done")>>)]),
          JObj([action |-> JList(<<JStr("click_element")>>)]),
          JObj([action |-> JList(<<JInt(1)>>)]),
          JObj([action |-> JObj([click_element |-> JObj([index |-> JInt(1)])])]),
          JObj([action |-> JStr("click"), index |-> JInt(1)]),
          JObj([action |-> JStr("input_text"), index |-> JInt(1), text |-> JStr("cats")]),
          JObj([action |-> JStr("click")]),
          JObj([action |-> JStr("done")]),
          JList(<<>>),
          JStr("done")}

DecideResponses == {Response(f, b) : f \in Fences, b \in DecideBodies}

\* The bodies of the oracle's answers to the instruction-parsing call.
ParseBodies ==
    {r.body : r \in SessionParseResponses}
    \cup {JObj(EmptyDict), JList(<<>>)}

\* The longest history handed to the translator on its own.
MaxHistory == 7

\* The next_goal of the k-th recorded action.
Goals == <<"open menu", "pick filter", "type query", "submit", "open result",
           "scroll down", "open settings", "close dialog", "go back">>

\* A history of n recorded actions; the actions at the positions in `blank`
\* are 'wait' actions without next_goal, as a response that did not parse
\* leaves them.
History(n, blank) ==
    [k \in 1..n |->
        IF k \in blank
        THEN [action |-> "wait", selector |-> NoSelector, text |-> "", thinking |-> "",
              memory |-> "", next_goal |-> "", capture |-> "both", step_number |-> k]
        ELSE [action |-> "click", selector |-> IndexSelector(1), text |-> "", thinking |-> "",
              memory |-> "", next_goal |-> Goals[((k - 1) % Len(Goals)) + 1],
              capture |-> "both", step_number |-> k]]

Histories == {History(n, {}) : n \in 0..MaxHistory} \cup {History(MaxHistory, {2, 6})}

\* LLMPlanner.decide_next_action(..., action_history, step_number): the
\* history rendered into the prompt, and the action made of the oracle's answer
DecideNextAction ==
    /\ \E response \in DecideResponses, history \in Histories :
         LET step_number == Len(history) + 1 IN
         probe' = [fn |-> "decide_next_action", response |-> response,
                   step_number |-> step_number,
                   action_history |-> history,
                   prompt |-> [action_history |-> history_text(history)],
                   out |-> decide_next_action(response, step_number)]
    /\ UNCHANGED <<sessionVars, seen_states, last_elements, calls>>

\* LLMPlanner.parse_instruction(instruction), after the oracle answered
ParseInstruction ==
    /\ \E f \in Fences, b \in ParseBodies :
         probe' = [fn |-> "parse_instruction", response |-> Response(f, b),
                   out |-> parse_instruction(Response(f, b))]
    /\ UNCHANGED <<sessionVars, seen_states, last_elements, calls>>

NextPlanner ==
    \/ DecideNextAction
    \/ ParseInstruction

SpecPlanner == Init /\ [][NextPlanner]_vars

(***************************************************************************)
(* The executor on its own: any extraction, any action, any page answer    *)
(***************************************************************************)

\* The indices an action can name: around both ends of a short table and of
\* the long one.
IndexRange ==
    ((0 - MaxElems - 1)..(MaxElems + 1)) \cup ((LongPage - 1)..(LongPage + 1))

\* The actions handed to execute_action.
ExecActions ==
    {[action |-> "click", selector |-> IndexSelector(i), text |-> ""] : i \in IndexRange}
    \cup {[action |-> "type", selector |-> IndexSelector(i), text |-> "cats"] : i \in IndexRange}
    \cup {[action |-> "type", selector |-> IndexSelector(i), text |-> "cats",
           press_enter |-> TRUE] : i \in IndexRange}
    \cup {[action |-> "wait", selector |-> NoSelector, text |-> ""],
          [action |-> "wait", selector |-> Locator(1), text |-> ""],
          [action |-> "scroll", selector |-> NoSelector, text |-> ""],
          [action |-> "scroll", selector |-> Locator(1), text |-> ""],
          [action |-> "navigate", url |-> "https://example.com"],
          [action |-> "hover", selector |-> Locator(1), text |-> ""],
          [action |-> "stop", selector |-> NoSelector, text |-> ""]}

\* WebExecutor.extract_dom_context(max_elements)
ExtractDomContext ==
    /\ \E page \in Evaluations(PageElements) :
         /\ last_elements' = extract_dom_context(last_elements, page)
         /\ probe' = [fn |-> "extract_dom_context", page |-> page]
    /\ UNCHANGED <<sessionVars, seen_states, calls>>

\* WebExecutor.execute_action(action)
ExecuteAction ==
    /\ \E action \in ExecActions :
         \E env \in Envs(action) :
           LET x == execute_action(action, last_elements, env) IN
           probe' = [fn |-> "execute_action", action |-> action, table |-> last_elements,
                     result |-> x.result, ops |-> x.ops]
    /\ UNCHANGED <<sessionVars, seen_states, last_elements, calls>>

NextExecutor ==
    \/ ExtractDomContext
    \/ ExecuteAction

SpecExecutor == Init /\ [][NextExecutor]_vars

(***************************************************************************)
(* The executor typing into the fields of a page                           *)
(***************************************************************************)

\* The fields a type action can name: each way the page script detects a
\* search field, and fields it does not detect.
Fields ==
    {PlainField,
     SearchInput,
     [type |-> <<"S", "E", "a", "r", "c", "h">>],
     [type |-> <<"t", "e", "x", "t">>, role |-> SearchWord \o <<"b", "o", "x">>],
     [type |-> <<"t", "e", "x", "t">>, placeholder |-> <<"S">> \o Tail(SearchWord) \o <<".", ".", ".">>],
     [name |-> <<"q", "_">> \o SearchWord],
     [id |-> <<"r", "e">> \o SearchWord \o <<"-", "b", "o", "x">>],
     [type |-> <<"t", "e", "x", "t">>, id |-> <<"Q", "u", "e", "r", "y">>]}

\* The fields of Fields that are search fields: type 'search', role
\* 'searchbox', or 'search' inside placeholder, name or id.
SearchFields == Fields \ {PlainField, [type |-> <<"t", "e", "x", "t">>, id |-> <<"Q", "u", "e", "r", "y">>]}

\* The values of an action's press_enter key; "absent" for an action without.
PressEnterValues == {"absent", "true", "false"}

TypeAction(i, press_enter) ==
    IF press_enter = "absent"
    THEN [action |-> "type", selector |-> IndexSelector(i), text |-> "cats"]
    ELSE [action |-> "type", selector |-> IndexSelector(i), text |-> "cats",
          press_enter |-> (press_enter = "true")]

\* What page.evaluate returns to an extraction on a page with a form: one
\* field, or two.
FormPages == {MkElements(<<Locator(1)>>), MkElements(<<Locator(2), Locator(1)>>)}

\* WebExecutor.extract_dom_context(max_elements) on a page with a form
ExtractFormContext ==
    /\ \E page \in Evaluations(FormPages) :
         /\ last_elements' = extract_dom_context(last_elements, page)
         /\ probe' = [fn |-> "extract_dom_context", page |-> page]
    /\ UNCHANGED <<sessionVars, seen_states, calls>>

\* WebExecutor.execute_action(action) of a type action on an element of the table
TypeInField ==
    /\ \E i \in 1..Len(last_elements), press_enter \in PressEnterValues, field \in Fields,
          env \in [visible : BOOLEAN, evaluate : BOOLEAN, fill : BOOLEAN, press : BOOLEAN] :
         LET action == TypeAction(i, press_enter)
             x == execute_action(action, last_elements,
                                 [visible |-> env.visible, evaluate |-> env.evaluate,
                                  field |-> field, fill |-> env.fill, press |-> env.press])
         IN  probe' = [fn |-> "type", action |-> action, field |-> field,
                       result |-> x.result, ops |-> x.ops]
    /\ UNCHANGED <<sessionVars, seen_states, last_elements, calls>>

\* WebExecutor.execute_action(action) of a click action on the same elements
ClickElement ==
    /\ \E i \in 1..Len(last_elements) :
         \E env \in [visible : BOOLEAN, click : BOOLEAN, force : BOOLEAN] :
           LET action == [action |-> "click", selector |-> IndexSelector(i), text |-> ""]
               x == execute_action(action, last_elements, env)
           IN  probe' = [fn |-> "click", action |-> action,
                         result |-> x.result, ops |-> x.ops]
    /\ UNCHANGED <<sessionVars, seen_states, last_elements, calls>>

NextTyping ==
    \/ ExtractFormContext
    \/ TypeInField
    \/ ClickElement

SpecTyping == Init /\ [][NextTyping]_vars

(***************************************************************************)
(* agent_a_to_b.py: connecting to the browser                              *)
(***************************************************************************)

MacChrome == "/Applications/Google Chrome.app/Contents/MacOS/Google Chrome"
WinChrome == "C:\\Program Files\\Google\\Chrome\\Application\\chrome.exe"
WinChrome86 == "C:\\Program Files (x86)\\Google\\Chrome\\Application\\chrome.exe"
LinuxChrome == "/usr/bin/google-chrome"

\* platform.system() and the files os.path.exists can find
Systems == {"Darwin", "Windows", "Linux"}
ChromePaths == {MacChrome, WinChrome, WinChrome86, LinuxChrome}

Printed(text) == [op |-> "print", arg |-> text]
Launched(path) == [op |-> "launch", arg |-> path]
Connected(ok) == [op |-> "connect", arg |-> IF ok THEN "connected" ELSE "refused"]

\* setup_chrome 15-22
chrome_path(system, files) ==
    IF system = "Darwin" THEN MacChrome
    ELSE IF system = "Windows"
         THEN IF WinChrome \notin files THEN WinChrome86 ELSE WinChrome
         ELSE LinuxChrome

\* setup_chrome: the launch is a subprocess.Popen with the debugging port
setup_chrome(system, files) ==
    LET path == chrome_path(system, files)
    IN  IF path \notin files
        THEN [returned |-> FALSE, events |-> <<Printed("Chrome not found")>>]
        ELSE [returned |-> TRUE,
              events |-> <<Printed("Starting Chrome"), Launched(path)>>]

\* WebAgent(use_existing_browser=True): the planner is built first and raises
\* ValueError for an unsupported provider; the executor then connects over
\* CDP and raises RuntimeError when the connection fails.
Agent == [use_existing_browser |-> TRUE]

WebAgent(provider_ok, reachable) ==
    IF ~provider_ok THEN [raised |-> "ValueError", agent |-> None, events |-> <<>>]
    ELSE IF ~reachable
         THEN [raised |-> "RuntimeError", agent |-> None, events |-> <<Connected(FALSE)>>]
         ELSE [raised |-> "", agent |-> Agent, events |-> <<Connected(TRUE)>>]

\* A connect_to_chrome that starts Chrome before it tries to connect.
connect_to_chrome_LaunchFirst(provider_ok, system, files, first, second) ==
    LET started == setup_chrome(system, files)
        one == WebAgent(provider_ok, first)
    IN  [raised |-> IF one.raised = "RuntimeError" THEN "" ELSE one.raised,
         returned |-> one.agent,
         events |-> started.events \o one.events]

\* connect_to_chrome: first and second are whether Chrome answers on the
\* debugging port at the first and at the second attempt.
connect_to_chrome(provider_ok, system, files, first, second) ==
    LET one == WebAgent(provider_ok, first)
    IN  IF one.raised # "RuntimeError"
        THEN [raised |-> one.raised, returned |-> one.agent, events |-> one.events]
        ELSE LET started == setup_chrome(system, files)
                 before == one.events \o <<Printed("Chrome not running")>> \o started.events
             IN  IF ~started.returned
                 THEN [raised |-> "", returned |-> None, events |-> before]
                 ELSE LET two == WebAgent(provider_ok, second)
                          waited == before \o <<Printed("Waiting for Chrome")>> \o two.events
                      IN  IF two.raised = "RuntimeError"
                          THEN [raised |-> "", returned |-> None,
                                events |-> waited \o <<Printed("Could not connect"),
                                                       Printed("Please start Chrome manually")>>]
                          ELSE [raised |-> two.raised, returned |-> two.agent,
                                events |-> waited]

\* A call of setup_chrome on some machine.
SetupChrome ==
    /\ \E system \in Systems, files \in SUBSET ChromePaths :
         LET x == setup_chrome(system, files)
         IN  probe' = [fn |-> "setup_chrome", system |-> system, files |-> files,
                       returned |-> x.returned, events |-> x.events]
    /\ UNCHANGED <<sessionVars, seen_states, last_elements, calls>>

\* A call of connect_to_chrome on some machine.
ConnectToChrome ==
    /\ \E provider_ok \in BOOLEAN, system \in Systems, files \in SUBSET ChromePaths,
          first \in BOOLEAN, second \in BOOLEAN :
         LET x == connect_to_chrome(provider_ok, system, files, first, second)
         IN  probe' = [fn |-> "connect_to_chrome", provider_ok |-> provider_ok,
                       system |-> system, files |-> files,
                       first |-> first, second |-> second,
                       raised |-> x.raised, returned |-> x.returned,
                       events |-> x.events]
    /\ UNCHANGED <<sessionVars, seen_states, last_elements, calls>>

NextConnect ==
    \/ SetupChrome
    \/ ConnectToChrome

SpecConnect == Init /\ [][NextConnect]_vars

(***************************************************************************)
(* Properties                                                              *)
(***************************************************************************)

ProbeIs(fn) == "fn" \in DOMAIN probe /\ probe.fn = fn

\* The handler of the probed execute_action call raised: its last page call
\* failed.
HandlerRaised == Len(probe.ops) > 0 /\ ~probe.ops[Len(probe.ops)].ok

\* C1: execute_action returns a result record for every action and every
\* outcome of its handler: {success: true, url, is_search_box} when the
\* handler completes, {success: false, error} when it raises; never a value
\* without a success field.
C1_ResultRecord ==
    ProbeIs("execute_action") =>
        /\ "success" \in DOMAIN probe.result
        /\ IF HandlerRaised
           THEN DOMAIN probe.result = {"success", "error"} /\ ~probe.result.success
           ELSE probe.result.success => DOMAIN probe.result = {"success", "url", "is_search_box"}

\* The responses the claim calls malformed, of the wrong shape or empty: no
\* JSON, no dict, an 'action' that is no list, or an empty list.
IsMalformed(response) ==
    LET parsed == _parse_json(response) IN
    \/ StripFence(response) = NotJson
    \/ parsed.t # "dict"
    \/ JGet(parsed, "action", JList(<<>>)).t # "list"
    \/ Len(JGet(parsed, "action", JList(<<>>)).v) = 0

\* C2: for every oracle response that is no JSON, or a JSON object whose
\* 'action' is no list or a list of objects, decide_next_action raises
\* nothing and returns one action, and the action is 'wait' whenever the
\* response is malformed, of the wrong shape or holds no action.
C2_NeverRaises ==
    (/\ ProbeIs("decide_next_action")
     /\ _parse_json(probe.response).t = "dict"
     /\ LET raw == JGet(_parse_json(probe.response), "action", JList(<<>>)) IN
        raw.t = "list" => \A i \in 1..Len(raw.v) : raw.v[i].t = "dict")
    => (/\ ~probe.out.raised
        /\ IsMalformed(probe.response) => probe.out.value.action = "wait")

\* The executor did not carry out the action of the last iteration: it
\* reported failure, or its handler raised.
ExecFailed(r) == r = None \/ ("success" \in DOMAIN r /\ ~r.success)

\* C3: after the action of step n failed in an iteration without screenshot,
\* the loop stands before an iteration with the same step number n and a
\* screenshot attached, with nothing recorded for the failed attempt.
C3_VisionRetry ==
    ("result" \in DOMAIN iter /\ ~iter.vision /\ ExecFailed(iter.result)) =>
        /\ pc = "loop"
        /\ use_vision_for_step
        /\ step + 1 = iter.step_number
        /\ Len(action_history) = step

\* The session entered the step loop and has ended.
LoopEnded == pc = "prompt" /\ outcome.kind \in {"returned", "raised"} /\ "end" \in DOMAIN iter

\* C4: a session whose oracle never emits done ends after step 10 with
\* success = true, status 'completed' and a history of exactly 10 actions,
\* whatever the executor did (faults of the translator and of the disk are
\* left aside).
C4_BudgetExhaustion ==
    (/\ LoopEnded
     /\ iter.end # "stop"
     /\ outcome.kind = "raised" => outcome.error = "AttributeError")
    => (/\ outcome.kind = "returned"
        /\ outcome.success
        /\ disk.metadata # None
        /\ disk.metadata.status = "completed"
        /\ Len(action_history) = max_steps)

\* C5: a session that left the step loop and returned wrote metadata once,
\* holding the instruction, the parsed task info, the full action history
\* and the screenshot count of the session.
C5_MetadataContent ==
    (pc = "prompt" /\ outcome.kind = "returned") =>
        /\ disk.metadata_writes = 1
        /\ disk.metadata # None
        /\ disk.metadata.instruction = instruction
        /\ disk.metadata.task_info = task_info
        /\ disk.metadata.total_screenshots = storage.screenshot_count
        /\ "action_history" \in DOMAIN disk.metadata
        /\ disk.metadata.action_history = action_history

\* C6: every session that has ended, a session ended by a fault included,
\* left a metadata record of its own with an explicit status, 'failed' and
\* the error after a fault.
C6_AlwaysMetadata ==
    (pc = "prompt" /\ outcome.kind \in {"returned", "raised"}) =>
        /\ disk.dir = session
        /\ disk.metadata # None
        /\ "status" \in DOMAIN disk.metadata
        /\ outcome.kind = "raised" =>
              (disk.metadata.status = "failed" /\ "error" \in DOMAIN disk.metadata)

\* C7: an oracle response to the instruction-parsing call that is no JSON or
\* lacks app_name, url or task does not make execute_task raise.
C7_ParseTolerated ==
    (/\ outcome.kind = "raised"
     /\ task_info # None
     /\ ~({"app_name", "url", "task"} \subseteq DOMAIN task_info.v))
    => outcome.error # "KeyError"

\* The probed call is a click or type action whose selector is '[i]'.
IndexedCall(i) ==
    /\ ProbeIs("execute_action")
    /\ probe.action.action \in {"click", "type"}
    /\ probe.action.selector = IndexSelector(i)

\* C8: a click or type action whose selector is '[i]', 1 <= i <= k, is
\* applied to the locator of the i-th element of the cached table and to no
\* other: every page call it issues, at least one, names that locator.
C8_IndexResolves ==
    \A i \in 1..Len(last_elements) :
        IndexedCall(i) =>
            /\ probe.table = last_elements
            /\ Len(probe.ops) >= 1
            /\ \A k \in 1..Len(probe.ops) :
                  probe.ops[k].selector = last_elements[i].selector

C8_Witness ==
    /\ IndexedCall(LongPage)
    /\ Len(last_elements) = LongPage
    /\ \E k \in 1..Len(probe.ops) :
          /\ probe.ops[k].op = "fill"
          /\ probe.ops[k].ok
          /\ probe.ops[k].selector = Locator(LongPage)

\* C9: a click or type action naming index k + 1 of a table of k elements
\* touches no element of the table and the caller receives the failure
\* result {success: false, error}.
C9_IndexPastEnd ==
    IndexedCall(Len(last_elements) + 1) =>
        /\ \A k \in 1..Len(probe.ops) :
              probe.ops[k].ok =>
                  \A e \in 1..Len(last_elements) :
                      probe.ops[k].selector # last_elements[e].selector
        /\ "success" \in DOMAIN probe.result
        /\ ~probe.result.success

\* C10: two non-forced is_new_state calls in a row with the same screenshot:
\* the second returns false, and on a tracker that retained nothing before
\* the first call, the first returns true.
C10_TwiceInARow ==
    (/\ Len(calls) = 2
     /\ ~calls[1].force /\ ~calls[2].force
     /\ calls[1].image = calls[2].image)
    => (/\ calls[2].ret = FALSE
        /\ (calls[1].empty => calls[1].ret = TRUE))

C10_Witness ==
    /\ Len(calls) = 2
    /\ ~calls[1].force /\ ~calls[2].force
    /\ calls[1].image = calls[2].image
    /\ calls[1].empty /\ calls[1].ret /\ ~calls[2].ret

\* The last is_new_state call since the last reset.
LastCall == calls[Len(calls)]

\* The distances of the fingerprint of the last call to the fingerprints
\* retained when it was made.
LastDistances == {HashDiff(phash(LastCall.image), s) : s \in LastCall.seen}

\* C11: a non-forced is_new_state call returns false exactly when some
\* retained fingerprint is at distance <= 5 from the new one: distance exactly
\* 5 is a duplicate, distance 6 or more from every retained one is novel.
C11_Threshold ==
    (Len(calls) > 0 /\ ~LastCall.force) =>
        /\ (LastCall.ret = FALSE) <=> (\E d \in LastDistances : d <= 5)
        /\ (similarity_threshold \in LastDistances) => (LastCall.ret = FALSE)
        /\ (\A d \in LastDistances : d >= similarity_threshold + 1) => (LastCall.ret = TRUE)

C11_Witness ==
    /\ Len(calls) = 2
    /\ ~calls[1].force /\ ~calls[2].force
    /\ calls[1].seen # {} /\ calls[1].seen = calls[2].seen
    /\ {HashDiff(phash(calls[1].image), s) : s \in calls[1].seen} = {similarity_threshold}
    /\ calls[1].ret = FALSE
    /\ {HashDiff(phash(calls[2].image), s) : s \in calls[2].seen} = {similarity_threshold + 1}
    /\ calls[2].ret = TRUE

\* C12: after any sequence of is_new_state and reset calls, every two
\* distinct retained fingerprints are further apart than the threshold.
C12_KeptApart ==
    \A s1 \in seen_states, s2 \in seen_states :
        s1 # s2 => HashDiff(s1, s2) > similarity_threshold

C12_Witness ==
    /\ Cardinality(seen_states) >= 2
    /\ Len(calls) = 2
    /\ calls[1].force /\ ~calls[2].force
    /\ calls[2].ret = FALSE

\* C13: the history rendered into the prompt of decide_next_action holds
\* exactly the min(n, 5) most recent of the n recorded actions, oldest first
\* (actions 3 to 7 for n = 7), and 'None yet' for n = 0.
C13_HistoryBounded ==
    ProbeIs("decide_next_action") =>
        LET h == probe.action_history
            n == Len(h)
            m == IF n < 5 THEN n ELSE 5
            shown == probe.prompt.action_history
        IN  IF n = 0
            THEN shown = <<[literal |-> "None yet"]>>
            ELSE /\ Len(shown) = m
                 /\ \A i \in 1..m :
                       /\ shown[i].action = h[n - m + i].action
                       /\ h[n - m + i].next_goal # "" => shown[i].goal = h[n - m + i].next_goal

C13_Witness ==
    /\ ProbeIs("decide_next_action")
    /\ Len(probe.action_history) = 7
    /\ Len(probe.prompt.action_history) = 5
    /\ probe.prompt.action_history[1].goal = Goals[3]
    /\ probe.prompt.action_history[5].goal = Goals[7]

\* The page calls of the probed action of the given kind, in order.
OpsOf(op) == {k \in 1..Len(probe.ops) : probe.ops[k].op = op}

\* C14: a type action that filled its field sends Enter to that field exactly
\* when the field is a search field (type 'search', role 'searchbox', or
\* 'search' in placeholder, name or id) or the action asks for press_enter;
\* the keypress is the call right after the fill, on the same selector, no
\* other action is needed for it, and a click action never sends it.
C14_AutoSubmit ==
    /\ ProbeIs("click") => OpsOf("press_enter") = {}
    /\ ProbeIs("type") =>
          /\ \A k \in OpsOf("press_enter") :
                /\ k > 1
                /\ probe.ops[k - 1].op = "fill" /\ probe.ops[k - 1].ok
                /\ probe.ops[k - 1].selector = probe.ops[k].selector
          /\ \A f \in OpsOf("fill") :
                probe.ops[f].ok =>
                    ((OpsOf("press_enter") # {})
                       <=> (probe.field \in SearchFields
                            \/ ("press_enter" \in DOMAIN probe.action /\ probe.action.press_enter)))

C14_Witness ==
    /\ ProbeIs("type")
    /\ "press_enter" \notin DOMAIN probe.action
    /\ "placeholder" \in DOMAIN probe.field /\ probe.field \in SearchFields
    /\ probe.result # None /\ probe.result.success /\ probe.result.is_search_box
    /\ OpsOf("press_enter") = {Len(probe.ops)}
    /\ probe.ops[Len(probe.ops)].ok

\* The iteration recorded in iter executed an action and the executor did
\* not carry it out.
IterFailed == "result" \in DOMAIN iter /\ ExecFailed(iter.result)

\* C15: when the action of an iteration with a screenshot attached fails,
\* the loop does not retry: the failed action is the last entry of the
\* history and the step counter stands at the step of the failed action, so
\* the loop goes on with the next step number (a fault of the disk while the
\* capture is saved is left aside).
C15_NoSecondRetry ==
    (IterFailed /\ iter.vision) =>
        /\ iter.end # "retry"
        /\ iter.end = "raised" => outcome.error = "OSError"
        /\ Len(action_history) > 0
        /\ action_history[Len(action_history)] = iter.action
        /\ step = iter.step_number
        /\ ~use_vision_for_step

\* The iteration before the one that starts now ended in a failure of its
\* action with no screenshot attached.
PrevBlindFailure == IterFailed /\ ~iter.vision

IterResolved ==
    /\ "ops" \in DOMAIN iter
    /\ iter.action.action \in {"click", "type"}
    /\ \E k \in 1..Len(iter.ops) : iter.ops[k].selector # iter.action.selector

\* C17: an index is resolved only against the table that the extraction of
\* the same iteration produced, never against a table cached earlier, also
\* when the extraction of the iteration fails.
C17_FreshTable == IterResolved => iter.fresh

\* C18: when the translator returns a stop action the loop ends in that
\* iteration, the executor is not invoked, no page call and no capture
\* follow, the stop action is not recorded in the history, and all that the
\* session still does is write the metadata.
C18_StopEndsLoop ==
    /\ []((("action" \in DOMAIN iter) /\ iter.action.action = "stop") =>
            /\ iter.end = "stop"
            /\ iter.ops = <<>>
            /\ iter.result = [skipped |-> TRUE]
            /\ pc # "loop"
            /\ Len(action_history) = iter.step_number - 1
            /\ \A k \in 1..Len(action_history) : action_history[k].action # "stop")
    /\ [][(pc = "finish" /\ iter.end = "stop") =>
            /\ UNCHANGED <<action_history, seen_states, last_elements, step, novel, iter>>
            /\ disk'.files = disk.files
            /\ storage'.screenshot_count = storage.screenshot_count
            /\ storage'.metadata.screenshots = storage.metadata.screenshots
            /\ pc' \in {"finish", "prompt", "exit"}]_vars

C18_Witness ==
    /\ pc = "prompt"
    /\ outcome.kind = "returned"
    /\ iter.end = "stop"
    /\ iter.step_number = 3
    /\ disk.metadata_writes = 1
    /\ Len(disk.files) = 3

\* C19: a post-action capture is persisted if and only if is_new_state
\* called it new: while a session runs, and when it has returned,
\* screenshot_count is 1 (the forced initial capture) plus the number of
\* post-action captures called new so far, as many screenshots are listed and
\* as many files written; the total_screenshots of the metadata is that
\* number and the length of the metadata's screenshots list.
C19_PersistOnlyNovel ==
    /\ (pc \in {"loop", "finish"} \/ (pc = "prompt" /\ outcome.kind = "returned")) =>
          /\ storage.screenshot_count = 1 + novel
          /\ Len(storage.metadata.screenshots) = 1 + novel
          /\ Len(disk.files) = 1 + novel
          /\ ("end" \in DOMAIN iter /\ iter.end = "saved") =>
                disk.files[Len(disk.files)] = ShotName(iter.step_number, iter.action.action)
    /\ (pc = "prompt" /\ outcome.kind = "returned") =>
          /\ disk.metadata.total_screenshots = 1 + novel
          /\ Len(disk.metadata.screenshots) = 1 + novel
          /\ outcome.screenshots = 1 + novel

C19_Witness ==
    /\ pc = "prompt"
    /\ outcome.kind = "returned"
    /\ novel = 1
    /\ Len(action_history) = 3
    /\ disk.metadata.total_screenshots = 2
    /\ Len(disk.metadata.screenshots) = 2

\* C20: is_new_state with force_save = true returns true for every
\* screenshot and every tracker state and leaves the retained fingerprints
\* as they were.
C20_ForcedCall ==
    (Len(calls) > 0 /\ LastCall.force) =>
        /\ LastCall.ret = TRUE
        /\ seen_states = LastCall.seen

C20_Witness ==
    /\ Len(calls) = 2
    /\ ~calls[1].force /\ calls[1].ret
    /\ calls[2].force /\ calls[2].ret
    /\ \A d \in LastDistances : d > similarity_threshold
    /\ seen_states = {phash(calls[1].image)}

\* The first iteration of the session captured a screenshot after its action.
FirstCapture == iter.step_number = 1 /\ "image" \in DOMAIN iter

\* C21: the fingerprint of the forced initial screenshot is not retained, so
\* the first post-action capture of a session is called new and persisted,
\* also when it shows the very image of the initial screenshot (a fault of
\* the disk while it is saved is left aside).
C21_FirstCaptureNovel ==
    /\ iter.step_number = 0 => seen_states = {}
    /\ FirstCapture => iter.end = "saved"
    /\ Len(action_history) >= 1 =>
          /\ novel >= 1
          /\ seen_states # {}
          /\ \/ /\ Len(disk.files) >= 2
                /\ disk.files[2] = ShotName(1, action_history[1].action)
             \/ /\ outcome = Raised("OSError")
                /\ Len(action_history) = 1

C21_Witness ==
    /\ FirstCapture
    /\ iter.end = "saved"
    /\ "image" \in DOMAIN iter.follows
    /\ iter.follows.image = iter.image
    /\ disk.files = <<ShotName(0, "initial"), ShotName(1, "click")>>

\* C22: every execute_task starts with an empty set of retained
\* fingerprints, however the session before it ended; the fingerprints a
\* session retains all come from its own captures, and a screenshot the
\* session before had retained is called new at the first capture.
C22_ResetPerSession ==
    /\ [][session' # session => seen_states' = {}]_vars
    /\ [](Cardinality(seen_states) <= Len(action_history))
    /\ []((/\ FirstCapture
           /\ "cleared" \in DOMAIN iter.follows
           /\ phash(iter.image) \in iter.follows.cleared) => iter.end = "saved")

C22_Witness ==
    /\ session = 2
    /\ FirstCapture
    /\ iter.end = "saved"
    /\ iter.follows.cleared # {}
    /\ phash(iter.image) \in iter.follows.cleared

\* The probed call is a click action.
ClickCall == ProbeIs("execute_action") /\ probe.action.action = "click"

\* C23: a click action makes at most two click attempts, both on the
\* resolved locator: a forced click is attempted exactly when the normal
\* click failed, right after it and once; the action fails only when the
\* visibility wait failed or the forced click failed too; after a failed
\* visibility wait no click of either kind is attempted.
C23_ClickAttempts ==
    ClickCall =>
        LET normal == OpsOf("click")
            forced == OpsOf("force_click")
            resolved == ResolveSelector(probe.action.selector, probe.table)
        IN  /\ Cardinality(normal) <= 1 /\ Cardinality(forced) <= 1
            /\ \A k \in normal \cup forced : probe.ops[k].selector = resolved
            /\ \A k \in normal : ~probe.ops[k].ok <=> (k + 1) \in forced
            /\ \A k \in forced : (k - 1) \in normal
            /\ ~probe.ops[1].ok => (normal \cup forced = {} /\ Len(probe.ops) = 1)
            /\ ExecFailed(probe.result) =>
                  \/ ~probe.ops[1].ok
                  \/ \E k \in forced : ~probe.ops[k].ok
            /\ (\E k \in normal \cup forced : probe.ops[k].ok) => ~ExecFailed(probe.result)

C23_Witness ==
    /\ ClickCall
    /\ Len(probe.ops) = 3
    /\ probe.ops[2].op = "click" /\ ~probe.ops[2].ok
    /\ probe.ops[3].op = "force_click" /\ probe.ops[3].ok
    /\ probe.ops[3].selector = Locator(1)
    /\ ~ExecFailed(probe.result)

\* C28: a click or type action whose index is 0 or negative resolves to no
\* element of the index table: no click and no fill is applied to a locator
\* of the table.
C28_NonPositiveIndex ==
    \A i \in (0 - MaxElems - 1)..0 :
        IndexedCall(i) =>
            \A k \in OpsOf("click") \cup OpsOf("force_click") \cup OpsOf("fill") :
                \A e \in 1..Len(last_elements) :
                    probe.ops[k].selector # last_elements[e].selector

\* C24: the action history of a session is append-only: a step of the
\* session leaves it as it is or adds one action, the action of the
\* iteration, at its end.
C24_AppendOnly ==
    [][session' = session =>
          \/ action_history' = action_history
          \/ /\ Len(action_history') = Len(action_history) + 1
             /\ SubSeq(action_history', 1, Len(action_history)) = action_history
             /\ action_history'[Len(action_history')] = iter'.action]_vars

C24_Witness ==
    /\ Len(action_history) = 3
    /\ iter.end = "stop"
    /\ action_history[1].step_number = 1
    /\ action_history[3].step_number = 3

\* The iterations the loop can still make: two for every step left, one
\* less when the coming iteration is the vision retry of its step.
Variant == 2 * (max_steps - step) - (IF use_vision_for_step THEN 1 ELSE 0)

\* C25: the step loop terminates: every iteration that stays in the loop
\* lowers a number that is never below 1 in the loop; the step number handed
\* to the translator is in 1..10, step 1 is never retried, a step is
\* escalated to vision at most once, and the translator is invoked at most
\* 19 times in a session.
C25_LoopTerminates ==
    /\ []("end" \in DOMAIN iter => iter.step_number \in 1..10)
    /\ [](asked <= 19)
    /\ []("end" \in DOMAIN iter /\ iter.end = "retry" => (iter.step_number > 1 /\ ~iter.vision))
    /\ [][("end" \in DOMAIN iter /\ iter.end = "retry" /\ iter' # iter) =>
             (iter'.step_number = iter.step_number /\ iter'.vision /\ iter'.end # "retry")]_vars
    /\ [](pc = "loop" => Variant >= 1)
    /\ [][(pc = "loop" /\ pc' = "loop") => (Variant' < Variant /\ asked' = asked + 1)]_vars

C25_Witness ==
    /\ pc = "prompt"
    /\ outcome.kind = "returned"
    /\ iter.step_number = 10
    /\ iter.end # "stop"
    /\ asked = 10

\* C29: at the start of an iteration the length of the history equals the
\* step counter and both are in 0..max_steps - 1; the k-th entry is the
\* action of step k; an iteration that ends in a retry captures nothing.
C29_HistoryMatchesStep ==
    pc = "loop" =>
        /\ Len(action_history) = step
        /\ step \in 0..(max_steps - 1)
        /\ \A k \in 1..Len(action_history) : action_history[k].step_number = k
        /\ ("end" \in DOMAIN iter /\ iter.end = "retry") =>
              ("image" \notin DOMAIN iter /\ iter.step_number = step + 1)

C29_Witness ==
    /\ pc = "loop"
    /\ step = max_steps - 1
    /\ Len(action_history) = max_steps - 1
    /\ novel = 2

\* C30: each step number persists at most one screenshot and no two
\* save_screenshot calls of a session use one name, so no file is overwritten
\* and the directory holds screenshot_count files.
C30_NoOverwrite ==
    storage # None =>
        LET shots == storage.metadata.screenshots IN
        /\ Len(disk.files) = storage.screenshot_count
        /\ \A i \in 1..Len(shots), j \in 1..Len(shots) :
              i # j => (shots[i].name # shots[j].name /\ shots[i].name.step # shots[j].name.step)

C30_Witness ==
    /\ storage # None
    /\ storage.screenshot_count = 3
    /\ Len(disk.files) = 3
    /\ disk.files[2].label = "click" /\ disk.files[3].label = "click"

EventsOf(op) == {i \in 1..Len(probe.events) : probe.events[i].op = op}

\* C26: connect_to_chrome tries to connect before any launch; it launches only
\* after the first attempt failed, at most once, and then tries to connect
\* exactly once more; after a second failure it prints the manual-start
\* instructions and returns None. No call connects more than twice or
\* launches more than once.
C26_ConnectThenLaunchOnce ==
    ProbeIs("connect_to_chrome") =>
        LET ev == probe.events
            connects == EventsOf("connect")
            launches == EventsOf("launch")
            refused == {i \in connects : ev[i].arg = "refused"}
        IN  /\ Cardinality(connects) <= 2
            /\ Cardinality(launches) <= 1
            /\ \A l \in launches :
                 /\ 1 \in refused
                 /\ {c \in connects : c < l} = {1}
                 /\ Cardinality({c \in connects : c > l}) = 1
            /\ launches = {} => Cardinality(connects) <= 1
            /\ Cardinality(refused) = 2 =>
                 /\ probe.returned = None
                 /\ probe.raised = ""
                 /\ ev[Len(ev)] = Printed("Please start Chrome manually")
            /\ probe.returned = Agent <=>
                 \E c \in connects \ refused : \A d \in connects : d <= c

C26_Witness ==
    /\ ProbeIs("connect_to_chrome")
    /\ Cardinality(EventsOf("connect")) = 2
    /\ Cardinality(EventsOf("launch")) = 1
    /\ probe.returned = None
    /\ probe.events[Len(probe.events)] = Printed("Please start Chrome manually")
====
